---- MODULE Spec2Model ----
(***************************************************************************)
(* Hand-Gesture-Net: the HandTracker component (camera frame loop,         *)
(* landmark smoother, gesture classifier, label debouncer) and the App     *)
(* callback that consumes its gesture events.                              *)
(*                                                                         *)
(* Numbers.  Pixel coordinates are whole pixels.  Confidence and the       *)
(* sensitivity threshold are held in thousandths (0.7 is 700), the         *)
(* smoothing factor in twentieths (the slider step; 0.8 is 16).            *)
(* Distances are held in tenths of a pixel, rounded down, and the weighted *)
(* mean of the smoother is rounded down to a whole pixel; the doubles of   *)
(* the program round the same expressions at their own precision.          *)
(*                                                                         *)
(* Landmarks.  Of the 21 keypoints of a hand the model keeps the eleven    *)
(* the classifier reads (wrist, the five MCP joints it names and the five  *)
(* fingertips).  The other ten feed only the joint angles and the drawing; *)
(* the angles (acos) are not modelled.                                     *)
(***************************************************************************)
EXTENDS Integers, Sequences, FiniteSets, Bags, TLC

VARIABLES
    detector,              \* "loading" | "ready" | "failed" (detector state + isLoading)
    isTracking,            \* React state isTracking
    sensitivity,           \* React state sensitivity, thousandths
    smoothing,             \* React state smoothing, twentieths
    currentGesture,        \* App state currentGesture (fixes the identity of onGestureDetected)
    gestureHistoryRef,     \* gestureHistoryRef.current
    smoothedLandmarksRef,  \* smoothedLandmarksRef.current, one optional entry per hand index
    loops,                 \* bag of the detectHands closures that are scheduled or awaiting estimateHands
    gestureHistory,        \* App state gestureHistory
    totalGestures,         \* App state totalGestures
    handsDetected,         \* App state handsDetected
    confidenceScores,      \* App state confidenceScores, thousandths
    emitted,               \* label of the latest onGestureDetected call, "" before the first
    aboveSinceStart,       \* tracking is on, sensitivity above 0.6 since the latest Start
    frameCount,            \* frames processed so far (bounds the exploration)
    last                   \* what the step just taken processed and emitted, if it was a frame

\* what the App callback accumulates, and the label it was last called with
session == <<gestureHistory, totalGestures, handsDetected, confidenceScores, emitted>>

vars == <<detector, isTracking, sensitivity, smoothing, currentGesture,
          gestureHistoryRef, smoothedLandmarksRef, loops, session, aboveSinceStart,
          frameCount, last>>

(***************************************************************************)
(* Bounds of the exploration                                               *)
(***************************************************************************)
MaxFrames == 2      \* frames processed in the tracker specification
MaxLoops == 2       \* detectHands closures alive at once in the tracker specification
MaxPushes == 6      \* frames processed in the pipeline specification
MaxClassify == 1    \* frames processed in the classifier specification
MaxDebounce == 10   \* frames processed in the debouncer specification
MaxSmooth == 3      \* frames processed in the smoother specification

(***************************************************************************)
(* Program constants                                                       *)
(***************************************************************************)
HistoryCapacity == 5
MaxHands == 2
ExtendMargin == 20
OkDistance == 30
FallbackConfidence == 600
DefaultSensitivity == 700
DefaultSmoothing == 16
SmoothingDenominator == 20

SensitivityRange == {100 * k : k \in 1..10}
SmoothingRange == 0..19

WRIST == 0
THUMB_MCP == 2
THUMB_TIP == 4
INDEX_MCP == 5
INDEX_TIP == 8
MIDDLE_MCP == 9
MIDDLE_TIP == 12
RING_MCP == 13
RING_TIP == 16
PINKY_MCP == 17
PINKY_TIP == 20
KeyIdx == {WRIST, THUMB_MCP, THUMB_TIP, INDEX_MCP, INDEX_TIP, MIDDLE_MCP,
           MIDDLE_TIP, RING_MCP, RING_TIP, PINKY_MCP, PINKY_TIP}

(***************************************************************************)
(* Arithmetic helpers                                                      *)
(***************************************************************************)
Min(a, b) == IF a < b THEN a ELSE b
Max(a, b) == IF a > b THEN a ELSE b

RECURSIVE SqrtSearch(_, _, _)
SqrtSearch(n, lo, hi) ==
    IF lo >= hi THEN lo
    ELSE LET mid == (lo + hi + 1) \div 2
         IN IF mid * mid <= n THEN SqrtSearch(n, mid, hi)
                              ELSE SqrtSearch(n, lo, mid - 1)

\* Math.sqrt, rounded down
ISqrt(n) == SqrtSearch(n, 0, 20000)

\* Math.sqrt(Math.pow(p.x - q.x, 2) + Math.pow(p.y - q.y, 2)), in tenths of a pixel
Dist10(p, q) ==
    ISqrt(100 * ((p.x - q.x) * (p.x - q.x) + (p.y - q.y) * (p.y - q.y)))

(***************************************************************************)
(* HandLandmark {x, y, z?}: z is <<>> when absent, <<v>> when present      *)
(***************************************************************************)
Lm(x, y, z) == [x |-> x, y |-> y, z |-> z]

\* JavaScript truthiness of an optional number: absent and 0 are falsy
Truthy(z) == Len(z) = 1 /\ z[1] # 0

\* prev * smoothing + cur * (1 - smoothing)
Mix(prev, cur, a) ==
    (prev * a + cur * (SmoothingDenominator - a)) \div SmoothingDenominator

\* the landmark built by the map callback of smoothLandmarks
SmoothPoint(prev, cur, a) ==
    [x |-> Mix(prev.x, cur.x, a),
     y |-> Mix(prev.y, cur.y, a),
     z |-> IF Truthy(prev.z) /\ Truthy(cur.z)
           THEN <<Mix(prev.z[1], cur.z[1], a)>>
           ELSE cur.z]

\* smoothLandmarks(currentLandmarks, handIndex): the returned landmarks and the new ref
smoothLandmarks(slots, cur, handIndex, a) ==
    IF slots[handIndex] = <<>>
    THEN [out |-> cur, slots |-> [slots EXCEPT ![handIndex] = <<cur>>]]
    ELSE LET sm == [i \in KeyIdx |-> SmoothPoint(slots[handIndex][1][i], cur[i], a)]
         IN [out |-> sm, slots |-> [slots EXCEPT ![handIndex] = <<sm>>]]

(***************************************************************************)
(* detectAdvancedGesture: finger flags and the decision chain              *)
(***************************************************************************)
\* extendedFingers = [thumbExtended, indexExtended, middleExtended, ringExtended, pinkyExtended]
extendedFingers(lm) ==
    << lm[THUMB_TIP].x > lm[THUMB_MCP].x + ExtendMargin,
       lm[INDEX_TIP].y < lm[INDEX_MCP].y - ExtendMargin,
       lm[MIDDLE_TIP].y < lm[MIDDLE_MCP].y - ExtendMargin,
       lm[RING_TIP].y < lm[RING_MCP].y - ExtendMargin,
       lm[PINKY_TIP].y < lm[PINKY_MCP].y - ExtendMargin >>

\* a count that leaves the thumb out
extendedCountFingersOnly(ext) == Cardinality({i \in 2..5 : ext[i]})

\* extendedFingers.filter(Boolean).length
extendedCount(ext) == Cardinality({i \in 1..5 : ext[i]})

Digit == <<"1", "2", "3", "4", "5">>

\* `${extendedCount} Finger${extendedCount !== 1 ? 's' : ''}`
FingerLabel(n) == Digit[n] \o " Finger" \o (IF n # 1 THEN "s" ELSE "")

\* the if / else-if chain: the label and the confidence before the sensitivity gate
classifyBranch(lm) ==
    LET ext == extendedFingers(lm)
        n == extendedCount(ext)
        thumbExtended == ext[1]
        indexExtended == ext[2]
        middleExtended == ext[3]
        ringExtended == ext[4]
        pinkyExtended == ext[5]
    IN  IF n = 0 THEN
            [gesture |-> "Fist",
             confidence |-> Min(1000, 2 * (1000 - Dist10(lm[INDEX_TIP], lm[WRIST])))]
        ELSE IF n = 5 THEN
            [gesture |-> "Open Hand",
             confidence |-> Min(1000, (5 * Dist10(lm[THUMB_TIP], lm[PINKY_TIP])) \div 10)]
        ELSE IF indexExtended /\ ~middleExtended /\ ~ringExtended /\ ~pinkyExtended THEN
            [gesture |-> "Pointing", confidence |-> IF indexExtended THEN 900 ELSE 500]
        ELSE IF indexExtended /\ middleExtended /\ ~ringExtended /\ ~pinkyExtended THEN
            [gesture |-> "Peace Sign",
             confidence |-> Min(1000, 2 * Dist10(lm[INDEX_TIP], lm[MIDDLE_TIP]))]
        ELSE IF thumbExtended /\ ~indexExtended /\ ~middleExtended /\ ~ringExtended
                /\ ~pinkyExtended THEN
            [gesture |-> "Thumbs Up", confidence |-> IF thumbExtended THEN 850 ELSE 400]
        ELSE IF thumbExtended /\ indexExtended /\ ~middleExtended /\ ~ringExtended
                /\ ~pinkyExtended THEN
            IF Dist10(lm[THUMB_TIP], lm[INDEX_TIP]) < 10 * OkDistance
            THEN [gesture |-> "OK Sign", confidence |-> 800]
            ELSE [gesture |-> "Unknown", confidence |-> 0]
        ELSE IF indexExtended /\ pinkyExtended /\ ~middleExtended /\ ~ringExtended THEN
            [gesture |-> "Rock Sign", confidence |-> 750]
        ELSE IF thumbExtended /\ pinkyExtended /\ ~indexExtended /\ ~middleExtended
                /\ ~ringExtended THEN
            [gesture |-> "Call Me", confidence |-> 700]
        ELSE
            [gesture |-> FingerLabel(n), confidence |-> FallbackConfidence]

\* a gate that relabels but keeps the branch confidence
applySensitivityKeepsConfidence(r, sens) ==
    IF r.confidence < sens THEN [gesture |-> "Uncertain", confidence |-> r.confidence] ELSE r

\* if (confidence < sensitivity) { gesture = 'Uncertain'; confidence = 0; }
applySensitivity(r, sens) ==
    IF r.confidence < sens THEN [gesture |-> "Uncertain", confidence |-> 0] ELSE r

\* a push that never evicts
pushHistoryNeverEvicts(hist, g) == Append(hist, g)

\* a push that, once over capacity, drops the label just pushed (pop for shift)
pushHistoryEvictsNewest(hist, g) ==
    LET h == Append(hist, g)
    IN IF Len(h) > HistoryCapacity THEN SubSeq(h, 1, HistoryCapacity) ELSE h

\* gestureHistoryRef.current.push(gesture); if (length > 5) shift()
pushHistory(hist, g) ==
    LET h == Append(hist, g)
    IN IF Len(h) > HistoryCapacity THEN Tail(h) ELSE h

\* the keys of gestureCount in the order Object.entries lists them: first occurrence
RECURSIVE entryKeys(_)
entryKeys(hist) ==
    IF hist = <<>> THEN <<>>
    ELSE LET front == entryKeys(SubSeq(hist, 1, Len(hist) - 1))
             g == hist[Len(hist)]
         IN IF \E k \in 1..Len(front) : front[k] = g THEN front ELSE Append(front, g)

\* gestureCount[g]
gestureCount(hist, g) == Cardinality({k \in 1..Len(hist) : hist[k] = g})

RECURSIVE reduceEntriesFirstWins(_, _, _)
reduceEntriesFirstWins(hist, a, rest) ==
    IF rest = <<>> THEN a
    ELSE reduceEntriesFirstWins(hist,
            IF gestureCount(hist, a) >= gestureCount(hist, rest[1]) THEN a ELSE rest[1],
            Tail(rest))

\* entries.reduce((a, b) => gestureCount[a[0]] > gestureCount[b[0]] ? a : b)
RECURSIVE reduceEntries(_, _, _)
reduceEntries(hist, a, rest) ==
    IF rest = <<>> THEN a
    ELSE reduceEntries(hist,
            IF gestureCount(hist, a) > gestureCount(hist, rest[1]) THEN a ELSE rest[1],
            Tail(rest))

\* a majority vote whose ties go to the label met first
mostCommonFirstWins(hist) ==
    LET keys == entryKeys(hist) IN reduceEntriesFirstWins(hist, keys[1], Tail(keys))

\* mostCommon, for a buffer that holds at least one label
mostCommon(hist) ==
    LET keys == entryKeys(hist) IN reduceEntries(hist, keys[1], Tail(keys))

\* confidence: Math.max(0, Math.min(1, confidence))
returnedConfidence(c) == Max(0, Min(1000, c))

\* a detectAdvancedGesture that returns the confidence of the branch, ungated and unclamped
detectAdvancedGestureBranchConfidence(hands, sens, a, hist, slots) ==
    IF Len(hands) = 0
    THEN [gesture |-> "No hands detected", confidence |-> 0, handData |-> <<>>,
          hist |-> hist, slots |-> slots,
          branch |-> [gesture |-> "Unknown", confidence |-> 0], raw |-> "Unknown",
          extended |-> <<>>]
    ELSE LET hand == hands[1]
             sm == smoothLandmarks(slots, hand.keypoints, 0, a)
             landmarks == sm.out
             br == classifyBranch(landmarks)
             gated == applySensitivity(br, sens)
             h == pushHistory(hist, gated.gesture)
         IN [gesture |-> mostCommon(h),
             confidence |-> br.confidence,
             handData |-> << [landmarks |-> landmarks,
                              extendedFingers |-> extendedFingers(landmarks),
                              handedness |-> hand.handedness] >>,
             hist |-> h, slots |-> sm.slots,
             branch |-> br, raw |-> gated.gesture,
             extended |-> extendedFingers(landmarks)]

\* a detectAdvancedGesture whose handData carries the landmarks as estimateHands gave them
detectAdvancedGestureRawHandData(hands, sens, a, hist, slots) ==
    IF Len(hands) = 0
    THEN [gesture |-> "No hands detected", confidence |-> 0, handData |-> <<>>,
          hist |-> hist, slots |-> slots,
          branch |-> [gesture |-> "Unknown", confidence |-> 0], raw |-> "Unknown",
          extended |-> <<>>]
    ELSE LET hand == hands[1]
             sm == smoothLandmarks(slots, hand.keypoints, 0, a)
             landmarks == sm.out
             br == classifyBranch(landmarks)
             gated == applySensitivity(br, sens)
             h == pushHistory(hist, gated.gesture)
         IN [gesture |-> mostCommon(h),
             confidence |-> returnedConfidence(gated.confidence),
             handData |-> << [landmarks |-> hand.keypoints,
                              extendedFingers |-> extendedFingers(hand.keypoints),
                              handedness |-> hand.handedness] >>,
             hist |-> h, slots |-> sm.slots,
             branch |-> br, raw |-> gated.gesture,
             extended |-> extendedFingers(landmarks)]

\* detectAdvancedGesture(hands): the returned object, the refs it leaves, and what it
\* computed on the way (branch: before the gate, raw: the label it pushed)
detectAdvancedGesture(hands, sens, a, hist, slots) ==
    IF Len(hands) = 0
    THEN [gesture |-> "No hands detected", confidence |-> 0, handData |-> <<>>,
          hist |-> hist, slots |-> slots,
          branch |-> [gesture |-> "Unknown", confidence |-> 0], raw |-> "Unknown",
          extended |-> <<>>]
    ELSE LET hand == hands[1]
             sm == smoothLandmarks(slots, hand.keypoints, 0, a)
             landmarks == sm.out
             br == classifyBranch(landmarks)
             gated == applySensitivity(br, sens)
             h == pushHistory(hist, gated.gesture)
         IN [gesture |-> mostCommon(h),
             confidence |-> returnedConfidence(gated.confidence),
             handData |-> << [landmarks |-> landmarks,
                              extendedFingers |-> extendedFingers(landmarks),
                              handedness |-> hand.handedness] >>,
             hist |-> h, slots |-> sm.slots,
             branch |-> br, raw |-> gated.gesture,
             extended |-> extendedFingers(landmarks)]

\* drawAdvancedHands(hands): every hand is passed through smoothLandmarks again
RECURSIVE drawAdvancedHands(_, _, _, _)
drawAdvancedHands(hands, handIndex, a, slots) ==
    IF handIndex >= Len(hands) THEN slots
    ELSE drawAdvancedHands(hands, handIndex + 1, a,
            smoothLandmarks(slots, hands[handIndex + 1].keypoints, handIndex, a).slots)

(***************************************************************************)
(* Hands fed to the model.  A right hand seen by a mirrored camera, wrist  *)
(* at the bottom; only the tips vary.                                      *)
(***************************************************************************)
MkHand(thumbTip, indexTip, middleTipY, ringTipY, pinkyTipY) ==
    [keypoints |->
        (WRIST :> Lm(256, 448, <<0>>)) @@
        (THUMB_MCP :> Lm(192, 384, <<>>)) @@
        (THUMB_TIP :> Lm(thumbTip[1], thumbTip[2], <<-20>>)) @@
        (INDEX_MCP :> Lm(192, 320, <<>>)) @@
        (INDEX_TIP :> Lm(indexTip[1], indexTip[2], <<-20>>)) @@
        (MIDDLE_MCP :> Lm(256, 320, <<>>)) @@
        (MIDDLE_TIP :> Lm(256, middleTipY, <<-20>>)) @@
        (RING_MCP :> Lm(320, 320, <<>>)) @@
        (RING_TIP :> Lm(320, ringTipY, <<-20>>)) @@
        (PINKY_MCP :> Lm(384, 320, <<>>)) @@
        (PINKY_TIP :> Lm(384, pinkyTipY, <<-20>>)),
     handedness |-> "Right"]

TipYs == {384, 256}     \* a folded and a raised fingertip

FistHand == MkHand(<<192, 384>>, <<256, 384>>, 384, 384, 384)
PointingHand == MkHand(<<192, 384>>, <<192, 256>>, 384, 384, 384)
OpenHand == MkHand(<<256, 384>>, <<192, 256>>, 256, 256, 256)
ThreeHand == MkHand(<<192, 384>>, <<192, 256>>, 256, 256, 384)

\* the hands of the pipeline specification
Poses == {FistHand, PointingHand, OpenHand}

\* estimateHands results of the tracker specification: no hand, or two hands of which the
\* first reaches the fallback branch (confidence 0.6, between the two slider positions)
TrackerFrames == {<<>>, <<ThreeHand, FistHand>>}

\* the hands of the classifier specification: every extension pattern, tight and loose
\* fists, thumb tips near to and far from the index tip
ThumbTips == {<<192, 384>>, <<256, 384>>, <<256, 256>>}
IndexTips == {<<256, 384>>, <<192, 320>>, <<192, 256>>, <<240, 256>>}
HandGrid ==
    {MkHand(t, i, m, r, p) : t \in ThumbTips, i \in IndexTips,
                             m \in TipYs, r \in TipYs,
                             p \in TipYs}

\* the hands of the smoother specification: a fist whose index tip has no z, z = 0 or one
\* of two other depths, and an open hand
WithZ(hand, i, z) == [hand EXCEPT !.keypoints[i].z = z]
DepthChoices == {<<>>, <<0>>, <<-20>>, <<40>>}
SmoothHands == {WithZ(FistHand, INDEX_TIP, z) : z \in DepthChoices} \cup {OpenHand}

EmptySlots == [i \in 0..(MaxHands - 1) |-> <<>>]

NoFrame ==
    [kind |-> "none", gesture |-> "", confidence |-> 0, handData |-> <<>>,
     branch |-> [gesture |-> "", confidence |-> 0], raw |-> "", extended |-> <<>>,
     sens |-> 0, smooth |-> 0, prevBuf |-> <<>>, buf |-> <<>>, prevRun |-> 0, noHandRun |-> 0,
     tracking |-> FALSE, hands |-> <<>>, prevSlots |-> EmptySlots,
     runLabel |-> "", rawRun |-> 0]

(***************************************************************************)
(* detectHands, from the return of estimateHands to drawAdvancedHands      *)
(***************************************************************************)
\* a zero-hand frame that is pushed and debounced like any other
noHandResultDebounced(hist, slots) ==
    LET h == pushHistory(hist, "No hands detected")
    IN [gesture |-> mostCommon(h), confidence |-> 0, handData |-> <<>>,
        hist |-> h, slots |-> slots,
        branch |-> [gesture |-> "Unknown", confidence |-> 0], raw |-> "Unknown",
        extended |-> <<>>]

\* a zero-hand frame that reports the majority label of the buffer
noHandResultMajority(hist, slots) ==
    [gesture |-> IF hist = <<>> THEN "No hands detected" ELSE mostCommon(hist),
     confidence |-> 0, handData |-> <<>>,
     hist |-> hist, slots |-> slots,
     branch |-> [gesture |-> "Unknown", confidence |-> 0], raw |-> "Unknown",
     extended |-> <<>>]

\* a zero-hand frame that forgets the smoothing state
noHandResultClearsSlots(hist, slots) ==
    [gesture |-> "No hands detected", confidence |-> 0, handData |-> <<>>,
     hist |-> hist, slots |-> EmptySlots,
     branch |-> [gesture |-> "Unknown", confidence |-> 0], raw |-> "Unknown",
     extended |-> <<>>]

\* onGestureDetected?.('No hands detected', 0): nothing else is touched
noHandResult(hist, slots) ==
    [gesture |-> "No hands detected", confidence |-> 0, handData |-> <<>>,
     hist |-> hist, slots |-> slots,
     branch |-> [gesture |-> "Unknown", confidence |-> 0], raw |-> "Unknown",
     extended |-> <<>>]

\* the event and the refs after one frame processed with the closure values sens and a
processFrame(hands, sens, a, hist, slots) ==
    LET r == IF Len(hands) > 0
             THEN detectAdvancedGesture(hands, sens, a, hist, slots)
             ELSE noHandResult(hist, slots)
    IN [r EXCEPT !.slots = drawAdvancedHands(hands, 0, a, r.slots)]

\* handleGestureDetected as created by the render that saw currentGesture = cb
handleGestureDetected(cb, gesture, cur) ==
    IF gesture # cb THEN gesture ELSE cur

\* a callback that records every change of label
recordsEveryChange(cb, gesture) == gesture # cb

\* the branch of handleGestureDetected that appends to the session lists
records(cb, gesture) ==
    gesture # cb /\ gesture # "No hands detected" /\ gesture # "Uncertain"

\* the functional updates of handleGestureDetected as created by the render that saw
\* currentGesture = cb; currentConfidence and handData, which every call overwrites and
\* nothing reads back, are left out
Aggregate(cb, gesture, confidence) ==
    /\ gestureHistory' =
           IF records(cb, gesture) THEN Append(gestureHistory, gesture) ELSE gestureHistory
    /\ totalGestures' = IF records(cb, gesture) THEN totalGestures + 1 ELSE totalGestures
    /\ handsDetected' = IF records(cb, gesture) THEN handsDetected + 1 ELSE handsDetected
    /\ confidenceScores' =
           IF records(cb, gesture) THEN Append(confidenceScores, confidence)
                                   ELSE confidenceScores
    /\ emitted' = gesture

\* the refs, the session and the record of the frame whose outcome is r, delivered to the
\* callback of the render that saw currentGesture = cb
FrameData(r, hands, sens, a, cb) ==
       /\ gestureHistoryRef' = r.hist
       /\ smoothedLandmarksRef' = r.slots
       /\ frameCount' = frameCount + 1
       /\ last' = [kind |-> IF Len(hands) > 0 THEN "hand" ELSE "nohand",
                   gesture |-> r.gesture, confidence |-> r.confidence,
                   handData |-> r.handData, branch |-> r.branch, raw |-> r.raw,
                   extended |-> r.extended, sens |-> sens, smooth |-> a,
                   prevBuf |-> gestureHistoryRef, buf |-> r.hist,
                   prevRun |-> last.noHandRun,
                   noHandRun |-> IF Len(hands) > 0 THEN 0 ELSE last.noHandRun + 1,
                   tracking |-> isTracking, hands |-> hands,
                   prevSlots |-> smoothedLandmarksRef,
                   runLabel |-> IF Len(hands) > 0 THEN r.raw ELSE last.runLabel,
                   rawRun |-> IF Len(hands) = 0 THEN last.rawRun
                              ELSE IF r.raw = last.runLabel
                                   THEN Min(HistoryCapacity, last.rawRun + 1)
                                   ELSE 1]
       /\ Aggregate(cb, r.gesture, r.confidence)

(***************************************************************************)
(* The frame loops.  A loop is one detectHands closure that keeps          *)
(* rescheduling itself; it carries the values its render closed over.      *)
(* Loops with equal fields are interchangeable, so they are kept in a bag. *)
(*   pc   "raf": requestAnimationFrame pending, "await": inside            *)
(*        estimateHands                                                    *)
(*   trk, sens, smooth: isTracking, sensitivity, smoothing of its render   *)
(*   cb   currentGesture of the render that made its onGestureDetected     *)
(*   ref  animationRef.current is the id of its pending request            *)
(***************************************************************************)
One(lp) == SetToBag({lp})

Scheduled(lps) == {lp \in BagToSet(lps) : lp.pc = "raf"}
CanSpawn(lps) == BagCardinality(lps) < MaxLoops

\* detectHands() called by the effect: passes the guard and awaits estimateHands
Spawn(lps, trk, sens, a, cb) ==
    lps (+) One([pc |-> "await", trk |-> trk, sens |-> sens, smooth |-> a, cb |-> cb,
                 ref |-> FALSE])

\* useEffect(() => { if (isTracking && detector) detectHands(); },
\*           [isTracking, detector, detectHands]) after a render with these values
EffectFires(changed, trk, det) == changed /\ trk /\ det = "ready"

RunEffect(lps, changed, trk, det, sens, a, cb) ==
    IF EffectFires(changed, trk, det) THEN Spawn(lps, trk, sens, a, cb) ELSE lps

\* cancelAnimationFrame(animationRef.current): the request is dropped if still pending
Cancel(lps) ==
    LET hit == {lp \in BagToSet(lps) : lp.ref /\ lp.pc = "raf"}
    IN lps (-) SetToBag(hit)

Unref(lp) == [lp EXCEPT !.ref = FALSE]

\* animationRef.current = requestAnimationFrame(detectHands), under if (isTracking)
Reschedule(lps, lp) ==
    IF lp.trk
    THEN BagOfAll(Unref, lps (-) One(lp)) (+) One([lp EXCEPT !.pc = "raf", !.ref = TRUE])
    ELSE lps (-) One(lp)

\* the slider stands above the confidence of the number branch
AboveFallback(sens) == sens > FallbackConfidence

\* App.tsx useState initial values
SessionInit ==
    /\ gestureHistory = <<>>
    /\ totalGestures = 0
    /\ handsDetected = 0
    /\ confidenceScores = <<>>
    /\ emitted = ""

TrackerInit ==
    /\ detector = "loading"
    /\ isTracking = FALSE
    /\ sensitivity = DefaultSensitivity
    /\ smoothing = DefaultSmoothing
    /\ currentGesture = "No hands detected"
    /\ gestureHistoryRef = <<>>
    /\ smoothedLandmarksRef = EmptySlots
    /\ loops = EmptyBag
    /\ SessionInit
    /\ aboveSinceStart = FALSE
    /\ frameCount = 0
    /\ last = NoFrame

\* initializeModel resolves: setDetector(handDetector); setIsLoading(false)
ModelLoaded ==
    /\ detector = "loading"
    /\ detector' = "ready"
    /\ loops' = RunEffect(loops, TRUE, isTracking, "ready", sensitivity, smoothing,
                          currentGesture)
    /\ last' = NoFrame
    /\ UNCHANGED <<isTracking, sensitivity, smoothing, currentGesture,
                   gestureHistoryRef, smoothedLandmarksRef, session, aboveSinceStart,
                   frameCount>>

\* initializeModel fails: setError(...); setIsLoading(false)
ModelFailed ==
    /\ detector = "loading"
    /\ detector' = "failed"
    /\ last' = NoFrame
    /\ UNCHANGED <<isTracking, sensitivity, smoothing, currentGesture,
                   gestureHistoryRef, smoothedLandmarksRef, loops, session, aboveSinceStart,
                   frameCount>>

\* the Start button (shown while !isTracking, enabled once loading is over)
StartTracking ==
    /\ detector # "loading"
    /\ ~isTracking
    /\ EffectFires(TRUE, TRUE, detector) => CanSpawn(loops)
    /\ isTracking' = TRUE
    /\ gestureHistoryRef' = <<>>
    /\ smoothedLandmarksRef' = EmptySlots
    /\ loops' = RunEffect(loops, TRUE, TRUE, detector, sensitivity, smoothing,
                          currentGesture)
    /\ aboveSinceStart' = AboveFallback(sensitivity)
    /\ last' = NoFrame
    /\ UNCHANGED <<detector, sensitivity, smoothing, currentGesture, session, frameCount>>

\* the Stop button (shown while isTracking)
StopTracking ==
    /\ detector # "loading"
    /\ isTracking
    /\ isTracking' = FALSE
    /\ loops' = Cancel(loops)
    /\ aboveSinceStart' = FALSE
    /\ last' = NoFrame
    /\ UNCHANGED <<detector, sensitivity, smoothing, currentGesture,
                   gestureHistoryRef, smoothedLandmarksRef, session, frameCount>>

\* the Reset button
ResetTracking ==
    /\ detector # "loading"
    /\ isTracking' = FALSE
    /\ loops' = Cancel(loops)
    /\ gestureHistoryRef' = <<>>
    /\ smoothedLandmarksRef' = EmptySlots
    /\ aboveSinceStart' = FALSE
    /\ last' = NoFrame
    /\ UNCHANGED <<detector, sensitivity, smoothing, currentGesture, session, frameCount>>

\* the sensitivity slider
SetSensitivity(v) ==
    /\ v # sensitivity
    /\ EffectFires(TRUE, isTracking, detector) => CanSpawn(loops)
    /\ sensitivity' = v
    /\ loops' = RunEffect(loops, TRUE, isTracking, detector, v, smoothing, currentGesture)
    /\ aboveSinceStart' = (aboveSinceStart /\ AboveFallback(v))
    /\ last' = NoFrame
    /\ UNCHANGED <<detector, isTracking, smoothing, currentGesture,
                   gestureHistoryRef, smoothedLandmarksRef, session, frameCount>>

\* the smoothing slider
SetSmoothing(v) ==
    /\ v # smoothing
    /\ EffectFires(TRUE, isTracking, detector) => CanSpawn(loops)
    /\ smoothing' = v
    /\ loops' = RunEffect(loops, TRUE, isTracking, detector, sensitivity, v, currentGesture)
    /\ last' = NoFrame
    /\ UNCHANGED <<detector, isTracking, sensitivity, currentGesture,
                   gestureHistoryRef, smoothedLandmarksRef, session, aboveSinceStart,
                   frameCount>>

\* the animation frame of loop lp arrives: detectHands passes its guard
\* (!detector || !videoRef.current || !isTracking, all of its closure) and calls estimateHands;
\* the id animationRef.current may still hold is spent, cancelling it does nothing
RafFire(lp) ==
    /\ lp.pc = "raf"
    /\ lp.trk
    /\ loops' = (loops (-) One(lp)) (+) One([lp EXCEPT !.pc = "await", !.ref = FALSE])
    /\ last' = NoFrame
    /\ UNCHANGED <<detector, isTracking, sensitivity, smoothing, currentGesture,
                   gestureHistoryRef, smoothedLandmarksRef, session, aboveSinceStart,
                   frameCount>>

\* estimateHands of loop lp returns hands: the rest of detectHands, then the render it causes
Resolve(lp, hands) ==
    /\ lp.pc = "await"
    /\ frameCount < MaxFrames
    /\ LET r == processFrame(hands, lp.sens, lp.smooth,
                             gestureHistoryRef, smoothedLandmarksRef)
           cg == handleGestureDetected(lp.cb, r.gesture, currentGesture)
           lps == Reschedule(loops, lp)
       IN /\ EffectFires(cg # currentGesture, isTracking, detector) => CanSpawn(lps)
          /\ currentGesture' = cg
          /\ loops' = RunEffect(lps, cg # currentGesture, isTracking, detector,
                                sensitivity, smoothing, cg)
          /\ FrameData(r, hands, lp.sens, lp.smooth, lp.cb)
    /\ UNCHANGED <<detector, isTracking, sensitivity, smoothing, aboveSinceStart>>

\* a catch that lets the error end the loop
ThrowEndsLoop(lp) ==
    /\ lp.pc = "await"
    /\ loops' = loops (-) One(lp)
    /\ last' = NoFrame
    /\ UNCHANGED <<detector, isTracking, sensitivity, smoothing, currentGesture,
                   gestureHistoryRef, smoothedLandmarksRef, session, aboveSinceStart,
                   frameCount>>

\* estimateHands of loop lp throws: the catch logs, then the loop reschedules
Throw(lp) ==
    /\ lp.pc = "await"
    /\ loops' = Reschedule(loops, lp)
    /\ last' = NoFrame
    /\ UNCHANGED <<detector, isTracking, sensitivity, smoothing, currentGesture,
                   gestureHistoryRef, smoothedLandmarksRef, session, aboveSinceStart,
                   frameCount>>

\* slider positions tried in the tracker specification
SensitivityChoices == {500, 700}
SmoothingChoices == {10, 16}

Next ==
    \/ ModelLoaded
    \/ ModelFailed
    \/ StartTracking
    \/ StopTracking
    \/ ResetTracking
    \/ \E v \in SensitivityChoices : SetSensitivity(v)
    \/ \E v \in SmoothingChoices : SetSmoothing(v)
    \/ \E lp \in BagToSet(loops) : RafFire(lp)
    \/ \E lp \in BagToSet(loops), hands \in TrackerFrames : Resolve(lp, hands)
    \/ \E lp \in BagToSet(loops) : Throw(lp)

Spec == TrackerInit /\ [][Next]_vars

(***************************************************************************)
(* The frame pipeline on its own: the frames of one tracker, one after the *)
(* other, each processed with the sensitivity and smoothing its closure    *)
(* holds (any slider position) and delivered to the latest callback.       *)
(***************************************************************************)
\* one frame: detectHands from the return of estimateHands on
Frame(hands, sens, a, bound) ==
    /\ frameCount < bound
    /\ LET r == processFrame(hands, sens, a, gestureHistoryRef, smoothedLandmarksRef)
       IN /\ FrameData(r, hands, sens, a, currentGesture)
          /\ currentGesture' = handleGestureDetected(currentGesture, r.gesture, currentGesture)
    /\ UNCHANGED <<detector, isTracking, sensitivity, smoothing, loops, aboveSinceStart>>

\* a restart that forgets the labels but keeps the smoothing state
ClearRefsKeepsSlots ==
    /\ gestureHistoryRef # <<>>
    /\ gestureHistoryRef' = <<>>
    /\ last' = NoFrame
    /\ UNCHANGED <<detector, isTracking, sensitivity, smoothing, currentGesture, loops,
                   smoothedLandmarksRef, session, aboveSinceStart,
                   frameCount>>

\* the two assignments startTracking and resetTracking share
ClearRefs ==
    /\ gestureHistoryRef # <<>>
    /\ gestureHistoryRef' = <<>>
    /\ smoothedLandmarksRef' = EmptySlots
    /\ last' = NoFrame
    /\ UNCHANGED <<detector, isTracking, sensitivity, smoothing, currentGesture, loops,
                   session, aboveSinceStart,
                   frameCount>>

PipelineInit ==
    /\ detector = "ready"
    /\ isTracking = TRUE
    /\ sensitivity = DefaultSensitivity
    /\ smoothing = DefaultSmoothing
    /\ currentGesture = "No hands detected"
    /\ gestureHistoryRef = <<>>
    /\ smoothedLandmarksRef = EmptySlots
    /\ loops = EmptyBag
    /\ SessionInit
    /\ aboveSinceStart = AboveFallback(sensitivity)
    /\ frameCount = 0
    /\ last = NoFrame

PipelineFrames == {<<>>} \cup {<<h>> : h \in Poses}
PipelineSmoothing == {0, DefaultSmoothing}

PipelineNext ==
    \/ \E hands \in PipelineFrames, a \in PipelineSmoothing :
           Frame(hands, DefaultSensitivity, a, MaxPushes)
    \/ ClearRefs

SpecFrames == PipelineInit /\ [][PipelineNext]_vars

(***************************************************************************)
(* The debouncer on its own: long runs of frames that each hold one hand,  *)
(* processed with smoothing 0 so that the label pushed is the label of the *)
(* hand shown.                                                             *)
(***************************************************************************)
DebounceFrames == {<<h>> : h \in Poses}

DebounceNext ==
    \E hands \in DebounceFrames : Frame(hands, DefaultSensitivity, 0, MaxDebounce)

SpecDebounce == PipelineInit /\ [][DebounceNext]_vars

(***************************************************************************)
(* The smoother on its own: a tracker with any smoothing factor sees a few *)
(* frames of hands that differ in position and in the z of one landmark,   *)
(* with restarts in between.                                               *)
(***************************************************************************)
SmoothInit ==
    /\ detector = "ready"
    /\ isTracking = TRUE
    /\ sensitivity = DefaultSensitivity
    /\ smoothing \in SmoothingRange
    /\ currentGesture = "No hands detected"
    /\ gestureHistoryRef = <<>>
    /\ smoothedLandmarksRef = EmptySlots
    /\ loops = EmptyBag
    /\ SessionInit
    /\ aboveSinceStart = AboveFallback(sensitivity)
    /\ frameCount = 0
    /\ last = NoFrame

SmoothFrames == {<<>>, <<OpenHand, FistHand>>} \cup {<<h>> : h \in SmoothHands}

SmoothNext ==
    \/ \E hands \in SmoothFrames : Frame(hands, sensitivity, smoothing, MaxSmooth)
    \/ ClearRefs

SpecSmooth == SmoothInit /\ [][SmoothNext]_vars

(***************************************************************************)
(* The classifier on its own: a tracker with any sensitivity meets any     *)
(* hand of the grid.                                                       *)
(***************************************************************************)
ClassifyInit ==
    /\ detector = "ready"
    /\ isTracking = TRUE
    /\ sensitivity \in SensitivityRange
    /\ smoothing = DefaultSmoothing
    /\ currentGesture = "No hands detected"
    /\ gestureHistoryRef = <<>>
    /\ smoothedLandmarksRef = EmptySlots
    /\ loops = EmptyBag
    /\ SessionInit
    /\ aboveSinceStart = AboveFallback(sensitivity)
    /\ frameCount = 0
    /\ last = NoFrame

ClassifyFrames == {<<>>} \cup {<<h>> : h \in HandGrid}

ClassifyNext ==
    \E hands \in ClassifyFrames : Frame(hands, sensitivity, smoothing, MaxClassify)

SpecClassify == ClassifyInit /\ [][ClassifyNext]_vars

(***************************************************************************)
(* Properties                                                              *)
(***************************************************************************)
Last(seq) == seq[Len(seq)]
LabelsOf(buf) == {buf[k] : k \in 1..Len(buf)}
Occurrences(buf, g) == Cardinality({k \in 1..Len(buf) : buf[k] = g})
FirstAt(buf, g) == CHOOSE k \in 1..Len(buf) : buf[k] = g /\ \A j \in 1..(k - 1) : buf[j] # g
TiedMax(buf) ==
    {g \in LabelsOf(buf) : \A o \in LabelsOf(buf) : Occurrences(buf, o) <= Occurrences(buf, g)}
GatedFrame == last.kind = "hand" /\ last.branch.confidence < last.sens

\* C1 as stated: a frame with a hand whose branch confidence is below the sensitivity
\* threshold emits gesture "Uncertain" with confidence 0, whatever the history buffer holds.
C1_GatedFrameEmitsUncertain ==
    GatedFrame => (last.gesture = "Uncertain" /\ last.confidence = 0)

\* C1 amended: such a frame pushes the raw label "Uncertain" into the history buffer and
\* emits confidence 0; the gesture it emits is a label of the buffer (the debounced one).
C1_GatedFramePushesUncertain ==
    GatedFrame =>
        /\ last.raw = "Uncertain"
        /\ Last(last.buf) = "Uncertain"
        /\ last.confidence = 0
        /\ last.gesture \in LabelsOf(last.buf)

\* a gated frame whose emitted gesture is not "Uncertain"
C1_Witness == GatedFrame /\ last.confidence = 0 /\ last.gesture = "Fist"

\* C2: with exactly thumb and index extended and the thumb tip less than 30 from the index
\* tip, the result before gating and debouncing is "OK Sign" with confidence 0.8.
C2_OkSignRow ==
    (/\ last.kind = "hand"
     /\ last.extended = <<TRUE, TRUE, FALSE, FALSE, FALSE>>
     /\ Dist10(last.handData[1].landmarks[THUMB_TIP],
               last.handData[1].landmarks[INDEX_TIP]) < 10 * OkDistance)
    => (last.branch.gesture = "OK Sign" /\ last.branch.confidence = 800)

\* C3 as stated: when labels tie for the highest count in the buffer, the emitted label is
\* the tied label met first in buffer order.
C3_TieGoesToFirst ==
    last.kind = "hand" =>
        /\ last.gesture \in TiedMax(last.buf)
        /\ \A g \in TiedMax(last.buf) : FirstAt(last.buf, last.gesture) <= FirstAt(last.buf, g)

\* C3 amended: the emitted label has the highest count, and among tied labels it is the one
\* whose first occurrence in the buffer comes last; [A, B, A, B, C] emits B.
C3_TieGoesToLast ==
    last.kind = "hand" =>
        /\ last.gesture \in TiedMax(last.buf)
        /\ \A g \in TiedMax(last.buf) : FirstAt(last.buf, g) <= FirstAt(last.buf, last.gesture)

\* the buffer [A, B, A, B, C] has been pushed and B is emitted
C3_Witness ==
    /\ last.kind = "hand"
    /\ Len(last.buf) = 5
    /\ last.buf[1] = last.buf[3] /\ last.buf[2] = last.buf[4] /\ last.buf[1] # last.buf[2]
    /\ last.buf[5] \notin {last.buf[1], last.buf[2]}
    /\ last.gesture = last.buf[2]

\* C4: while tracking is stopped no frame is scheduled (a frame in flight may still complete).
C4_StopHaltsLoop == ~isTracking => Scheduled(loops) = {}

\* C5: at most one frame loop is alive, hence at most one frame callback in progress.
C5_SingleFrameLoop == BagCardinality(loops) <= 1

\* C6 as stated: a zero-hand frame pushes "No hands detected" into the history buffer.
C6_NoHandPushed ==
    last.kind = "nohand" => (last.buf # <<>> /\ Last(last.buf) = "No hands detected")

\* C6 amended: a zero-hand frame leaves the history buffer as it was, the buffer never holds
\* "No hands detected", and a frame with a hand never emits it.
C6_NoHandLeavesHistory ==
    /\ last.kind = "nohand" => last.buf = last.prevBuf
    /\ "No hands detected" \notin LabelsOf(gestureHistoryRef)
    /\ last.kind = "hand" => last.gesture # "No hands detected"

\* the first frame with a hand after three zero-hand frames emits its own raw label
C6_Witness ==
    last.kind = "hand" /\ last.prevRun >= 3 /\ last.buf = <<last.raw>> /\ last.gesture = last.raw

\* C7: a frame that begins (its animation frame arrives) is processed by a closure that holds
\* the sensitivity and the smoothing of that moment.
C7_FrameUsesLatestSettings ==
    [][\A lp \in BagToSet(loops) :
          RafFire(lp) => (lp.sens = sensitivity /\ lp.smooth = smoothing)]_vars

\* C8: the confidence of every emitted result lies in [0, 1].
C8_ConfidenceInRange ==
    last.kind # "none" => (0 <= last.confidence /\ last.confidence <= 1000)

\* a fist whose index tip is more than 100 from the wrist: negative before the gate, 0 emitted
C8_Witness ==
    /\ last.kind = "hand"
    /\ last.branch.gesture = "Fist"
    /\ last.branch.confidence < 0
    /\ last.confidence = 0

\* C9: with no finger flagged extended the label before debouncing is "Fist", with all five
\* flagged it is "Open Hand", unless the sensitivity gate made it "Uncertain".
C9_FistAndOpenHand ==
    last.kind = "hand" =>
        /\ last.extended = <<FALSE, FALSE, FALSE, FALSE, FALSE>> =>
               (last.branch.gesture = "Fist" /\ last.raw \in {"Fist", "Uncertain"})
        /\ last.extended = <<TRUE, TRUE, TRUE, TRUE, TRUE>> =>
               (last.branch.gesture = "Open Hand" /\ last.raw \in {"Open Hand", "Uncertain"})

\* all five fingers flagged and the label "Open Hand" passes the gate
C9_Witness ==
    /\ last.kind = "hand"
    /\ last.extended = <<TRUE, TRUE, TRUE, TRUE, TRUE>>
    /\ last.raw = "Open Hand"

\* C10: a zero-hand frame emits exactly "No hands detected" with confidence 0 and no
\* handData, whatever the history buffer holds.
C10_NoHandFixedResult ==
    last.kind = "nohand" =>
        (last.gesture = "No hands detected" /\ last.confidence = 0 /\ last.handData = <<>>)

\* the fifth consecutive zero-hand frame, with labels of earlier hand frames in the buffer
C10_Witness ==
    last.kind = "nohand" /\ last.noHandRun = 5 /\ last.buf # <<>>

\* C11: when estimateHands throws while tracking is active, nothing is emitted (the App
\* state and the latest emission stay), the history buffer and the smoothing state are left
\* as they were, and the same closure is scheduled for the next frame.
C11_ThrowSkipsFrame ==
    [][\A lp \in BagToSet(loops) :
          (isTracking /\ Throw(lp)) =>
              /\ UNCHANGED <<currentGesture, session, gestureHistoryRef, smoothedLandmarksRef>>
              /\ \E nx \in Scheduled(loops') :
                     nx.ref /\ nx.sens = lp.sens /\ nx.smooth = lp.smooth /\ nx.cb = lp.cb]_vars

\* tracking is on, no frame has been processed, and a request is pending: the first
\* estimateHands call has thrown and the loop went on
C11_Witness ==
    /\ isTracking
    /\ frameCount = 0
    /\ \E lp \in Scheduled(loops) : lp.ref

RefsEmpty == gestureHistoryRef = <<>> /\ smoothedLandmarksRef = EmptySlots

\* C12: a (re)start leaves the history buffer and every smoothing slot empty, they stay
\* empty until a frame with a hand arrives, and that frame emits its own raw label, computed
\* from the landmarks of its first hand as estimateHands returned them.
C12_RestartStartsFresh ==
    [][/\ ClearRefs => RefsEmpty'
       /\ (RefsEmpty /\ last'.kind # "hand") => RefsEmpty'
       /\ (RefsEmpty /\ last'.kind = "hand") =>
              /\ last'.handData[1].landmarks = last'.hands[1].keypoints
              /\ last'.raw = applySensitivity(classifyBranch(last'.hands[1].keypoints),
                                              last'.sens).gesture
              /\ last'.buf = <<last'.raw>>
              /\ last'.gesture = last'.raw]_vars

\* a hand frame recorded a label, the refs were cleared, and the next hand frame, processed
\* with smoothing 0.8, emits its own different label
C12_Witness ==
    /\ last.kind = "hand"
    /\ last.prevBuf = <<>> /\ last.prevSlots = EmptySlots
    /\ last.smooth = DefaultSmoothing
    /\ Len(gestureHistory) = 2
    /\ gestureHistory[1] # last.gesture
    /\ last.gesture = last.raw

\* C13: after a push the history buffer holds at most 5 labels, and it is the buffer before
\* the push with the raw label appended and, on overflow, exactly its oldest label dropped:
\* the (up to) 5 most recently pushed labels in push order.
C13_BufferIsLastFive ==
    last.kind = "hand" =>
        LET pushed == Append(last.prevBuf, last.raw)
            n == Len(pushed)
        IN /\ Len(last.buf) <= HistoryCapacity
           /\ last.buf = SubSeq(pushed, Max(1, n - HistoryCapacity + 1), n)
           /\ gestureHistoryRef = last.buf

\* a push into a full buffer: the oldest label, which differs from the second, is gone
C13_Witness ==
    /\ last.kind = "hand"
    /\ Len(last.prevBuf) = HistoryCapacity
    /\ last.prevBuf[1] # last.prevBuf[2]
    /\ last.buf[1] = last.prevBuf[2]
    /\ last.buf[HistoryCapacity] = last.raw
    /\ last.raw # last.prevBuf[HistoryCapacity]

\* C14: when the same raw label has been pushed 5 times in a row, whatever the buffer held
\* before, the emitted label is that label.
C14_FiveInARow ==
    (last.kind = "hand" /\ last.rawRun >= HistoryCapacity) => last.gesture = last.raw

\* the tenth frame is the fifth push in a row of a label; before the run the other label
\* was the one emitted
C14_Witness ==
    /\ last.kind = "hand"
    /\ last.rawRun = HistoryCapacity
    /\ last.prevBuf = <<gestureHistory[1], last.raw, last.raw, last.raw, last.raw>>
    /\ gestureHistory[1] # last.raw
    /\ frameCount = 2 * HistoryCapacity
    /\ Len(gestureHistory) = 2
    /\ last.gesture = last.raw

\* the landmarks smoothLandmarks returns for the first hand of the frame just processed
FrameLandmarks ==
    LET cur == last.hands[1].keypoints
        prev == last.prevSlots[0]
    IN IF prev = <<>> THEN cur
       ELSE [i \in KeyIdx |-> SmoothPoint(prev[1][i], cur[i], last.smooth)]

\* C15: the handData of a frame with a hand holds the smoothed landmarks, the extended flags
\* and the handedness of that frame, and the confidence is that of its own branch after the
\* gate, also when the emitted label is a majority label that differs from its raw label.
C15_HandDataOfCurrentFrame ==
    last.kind = "hand" =>
        LET c == classifyBranch(FrameLandmarks).confidence
        IN /\ last.handData = << [landmarks |-> FrameLandmarks,
                                  extendedFingers |-> extendedFingers(FrameLandmarks),
                                  handedness |-> last.hands[1].handedness] >>
           /\ last.confidence = IF c < last.sens THEN 0 ELSE Min(1000, Max(0, c))

\* the emitted label is not the raw label of the frame, the confidence is the raw label's,
\* and the landmarks are smoothed ones
C15_Witness ==
    /\ last.kind = "hand"
    /\ last.gesture # last.raw
    /\ last.confidence > 0
    /\ last.confidence = last.branch.confidence
    /\ last.handData[1].landmarks # last.hands[1].keypoints

\* C16: on a non-first observation the z of every returned landmark is
\* prev.z * a + current.z * (1 - a) when both z are present, 0 included, and the current z
\* when one of them is absent.
C16_DepthSmoothedWhenPresent ==
    (last.kind = "hand" /\ last.prevSlots[0] # <<>>) =>
        \A i \in KeyIdx :
            LET p == last.prevSlots[0][1][i]
                c == last.hands[1].keypoints[i]
            IN last.handData[1].landmarks[i].z =
                   IF Len(p.z) = 1 /\ Len(c.z) = 1
                   THEN <<Mix(p.z[1], c.z[1], last.smooth)>>
                   ELSE c.z

\* C17: a hand that meets an empty slot is returned as given and becomes the state of the
\* slot, for every smoothing factor; a zero-hand frame leaves every slot as it was, so a
\* hand that comes back is smoothed against the state kept.
C17_FirstObservation ==
    /\ last.kind = "hand" =>
           /\ last.handData[1].landmarks =
                  IF last.prevSlots[0] = <<>> THEN last.hands[1].keypoints ELSE FrameLandmarks
           /\ \A k \in 1..Len(last.hands) :
                  last.prevSlots[k - 1] = <<>> =>
                      smoothedLandmarksRef[k - 1] = <<last.hands[k].keypoints>>
    /\ last.kind = "nohand" => smoothedLandmarksRef = last.prevSlots

\* after a restart a second hand, shown with smoothing on, is returned as given although
\* another hand was seen before
C17_Witness ==
    /\ last.kind = "hand"
    /\ last.prevSlots = EmptySlots
    /\ last.smooth > 0
    /\ Len(gestureHistory) = 2
    /\ gestureHistory[1] # last.gesture
    /\ last.handData[1].landmarks = last.hands[1].keypoints
    /\ smoothedLandmarksRef[0] = <<last.hands[1].keypoints>>

\* C18: a frame with a hand advances slot 0 exactly once: the state stored after the frame
\* is the landmarks the classifier used (prev * a + current * (1 - a) of the state before),
\* which are also the landmarks drawn.
C18_SlotAdvancedOnce ==
    last.kind = "hand" =>
        /\ last.handData[1].landmarks = FrameLandmarks
        /\ smoothedLandmarksRef[0] = <<FrameLandmarks>>

\* C19: the session lists and counters grow only on an emission whose label differs from
\* the label of the emission before it.
C19_RecordsOnlyOnChange ==
    [][<<gestureHistory, totalGestures, handsDetected, confidenceScores>>' #
           <<gestureHistory, totalGestures, handsDetected, confidenceScores>>
       => emitted' # emitted]_vars

\* C20: the two counters and the two lists of the session agree in size, and the list of
\* gestures never holds "No hands detected" or "Uncertain".
C20_SessionCountsAgree ==
    /\ totalGestures = Len(gestureHistory)
    /\ handsDetected = Len(gestureHistory)
    /\ Len(confidenceScores) = Len(gestureHistory)
    /\ \A k \in 1..Len(gestureHistory) :
           gestureHistory[k] \notin {"No hands detected", "Uncertain"}

\* a gesture has been recorded, and the frame just processed changed the current gesture
\* to "Uncertain" without recording it
C20_Witness ==
    /\ last.kind = "hand"
    /\ last.gesture = "Uncertain"
    /\ currentGesture = "Uncertain"
    /\ gestureHistory # <<>>
    /\ totalGestures = Len(gestureHistory)

\* the labels the number branch can write, and the labels of the branches before it
FingerLabels == {FingerLabel(n) : n \in 1..5}
NamedLabels ==
    {"Fist", "Open Hand", "Pointing", "Peace Sign", "Thumbs Up", "OK Sign", "Rock Sign",
     "Call Me", "Unknown"}

\* C21: while tracking is on and the sensitivity slider has been above 0.6 since the latest
\* Start, no frame with a hand pushes a label "<n> Finger(s)" into the history buffer and no
\* such frame emits one.
C21_NoFingerLabelAboveFallback ==
    aboveSinceStart /\ last.kind = "hand" =>
        /\ last.raw \notin FingerLabels
        /\ last.gesture \notin FingerLabels

\* C21, the gate of one closure: a frame processed with a sensitivity above 0.6 pushes no
\* label "<n> Finger(s)", it pushes "Uncertain" for every hand of the number branch.
C21_ClosureGate ==
    last.kind = "hand" /\ AboveFallback(last.sens) =>
        /\ last.raw \notin FingerLabels
        /\ last.branch.gesture \in FingerLabels => last.raw = "Uncertain"

\* C21, the number branch: a label that is none of the named ones is the count of the
\* extended fingers, and that count is 1, 2, 3 or 4.
C21_FallbackLabels ==
    last.kind = "hand" /\ last.branch.gesture \notin NamedLabels =>
        /\ last.branch.gesture = FingerLabel(extendedCount(last.extended))
        /\ extendedCount(last.extended) \in 1..4
        /\ last.branch.confidence = FallbackConfidence

\* C21: a hand of the number branch is met by a closure whose sensitivity is above 0.6
C21_GatedFallback ==
    /\ last.kind = "hand"
    /\ last.branch.gesture \in FingerLabels
    /\ AboveFallback(last.sens)
    /\ last.raw = "Uncertain"

====
